---- MODULE Spec2Model ----
(***************************************************************************)
(* Model of src/index.py: the Flask handler predict() of the skin-lesion   *)
(* inference service, its after_request hook, the upload directory it      *)
(* writes to and the three models it calls.                                *)
(*                                                                         *)
(* Numbers.  A float is held in fixed point, 2000 units to 1.0 (U(100) is  *)
(* 0.1), as a record: Fin(x), PInf, NInf or NaN.  cnn_probs is a float32   *)
(* array, so cnn_probs + N is a float32 addition: Fl32Round keeps 24       *)
(* significant bits.  Python indices are kept 0-based in the state.        *)
(***************************************************************************)
EXTENDS Integers, Sequences, FiniteSets, TLC

\* ------------------------------------------------------------------ bounds

\* The numeric metadata predictions drawn are k * 0.2 for k in -MaxSteps..MaxSteps.
MaxSteps == 3

\* ---------------------------------------------------- program constants

allowed_origin == "https://skin-lesion-classifier.vercel.app"

UPLOAD_FOLDER == "uploads"

CLASS_LABELS == <<"bkl", "nv", "df", "mel", "vasc", "bcc", "akiec">>

\* ------------------------------------------------------------- arithmetic

\* n thousandths, in units.
U(n) == 2 * n

RECURSIVE Pow2(_)
Pow2(n) == IF n = 0 THEN 1 ELSE 2 * Pow2(n - 1)

Abs(x) == IF x < 0 THEN -x ELSE x

Fin(x) == [k |-> "fin", v |-> x]

PInf == [k |-> "inf", v |-> 1]

NInf == [k |-> "inf", v |-> -1]

NaN == [k |-> "nan", v |-> 0]

\* x rounded to the nearest multiple of q, ties to the even multiple (x >= 0).
RoundHalfEven(x, q) ==
    LET lo == x \div q
        r  == x % q
    IN  IF 2 * r < q THEN lo * q
        ELSE IF 2 * r > q THEN (lo + 1) * q
        ELSE IF lo % 2 = 0 THEN lo * q ELSE (lo + 1) * q

\* The float32 nearest to x.  Below 2^13 the float32 spacing (at most 2^-11)
\* is finer than one unit (1/2000), so values on the grid stay distinct and
\* ordered and are kept as they are.  In [2^20, 2^21) the spacing is 2^(20-23)
\* = 1/8, which is 250 units.  No other magnitude is defined: the model draws
\* none.
Fl32Round(x) ==
    CASE Abs(x) < Pow2(13) * U(1000) -> x
      [] x >= Pow2(20) * U(1000)     -> RoundHalfEven(x, U(1000) \div 8)

\* a is an entry of a float32 array (a number of units), b a Python float.
F32Add(a, b) ==
    IF b.k = "fin" THEN Fin(Fl32Round(a + b.v)) ELSE b

\* Division by 2.0 is exact in binary floating point.
F32Div2(c) ==
    IF c.k = "fin" THEN Fin(c.v \div 2) ELSE c

\* a > b as IEEE compares: false when either is NaN.
FGt(a, b) ==
    /\ a.k # "nan"
    /\ b.k # "nan"
    /\ \/ a.k = "fin" /\ b.k = "fin" /\ a.v > b.v
       \/ a.k = "inf" /\ a.v = 1 /\ ~(b.k = "inf" /\ b.v = 1)
       \/ b.k = "inf" /\ b.v = -1 /\ ~(a.k = "inf" /\ a.v = -1)

\* numpy.argmax as a left-to-right scan: the first NaN if there is one, else
\* the first maximum.  best and i are 1-based positions in v.
RECURSIVE ArgmaxScan(_, _, _)
ArgmaxScan(v, best, i) ==
    IF i > Len(v) THEN best
    ELSE IF v[best].k = "nan" THEN best
    ELSE IF v[i].k = "nan" \/ FGt(v[i], v[best]) THEN ArgmaxScan(v, i, i + 1)
    ELSE ArgmaxScan(v, best, i + 1)

\* Mutation of the scan: the last maximum instead of the first.
RECURSIVE ArgmaxScanLast(_, _, _)
ArgmaxScanLast(v, best, i) ==
    IF i > Len(v) THEN best
    ELSE IF v[best].k = "nan" THEN best
    ELSE IF v[i].k = "nan" \/ ~FGt(v[best], v[i]) THEN ArgmaxScanLast(v, i, i + 1)
    ELSE ArgmaxScanLast(v, best, i + 1)

NpArgmaxLast(v) == ArgmaxScanLast(v, 1, 2) - 1

\* int(np.argmax(v)): the 0-based index.
NpArgmax(v) == ArgmaxScan(v, 1, 2) - 1

\* A float32 array given as numbers of units, as a sequence of floats.
AsFloats(p) == [i \in 1..Len(p) |-> Fin(p[i])]

\* ------------------------------------------------------------- formatting

RECURSIVE Pow10(_)
Pow10(n) == IF n = 0 THEN 1 ELSE 10 * Pow10(n - 1)

RECURSIVE ZeroPad(_, _)
ZeroPad(n, d) ==
    IF d = 0 THEN ""
    ELSE ZeroPad(n \div 10, d - 1) \o ToString(n % 10)

\* f"{x:.{d}f}" for x >= 0 units: x / 2000 to d decimals (d is 2 or 4).
FormatFixed(x, d) ==
    LET scaled == RoundHalfEven(x * Pow10(d), U(1000)) \div U(1000)
    IN  ToString(scaled \div Pow10(d)) \o "." \o ZeroPad(scaled % Pow10(d), d)

RECURSIVE JoinWith(_, _)
JoinWith(parts, sep) ==
    IF Len(parts) = 0 THEN ""
    ELSE IF Len(parts) = 1 THEN parts[1]
    ELSE parts[1] \o sep \o JoinWith(Tail(parts), sep)

\* ---------------------------------------------------------- Python values

\* The values nlp_model.predict(...)[0] can be.  s is what str() gives.
NpFloat(f, text) == [t |-> "float64", v |-> f, s |-> text]

RECURSIVE Zeros(_)
Zeros(n) ==
    IF n = 0 THEN ""
    ELSE LET half == Zeros(n \div 2)
         IN  half \o half \o (IF n % 2 = 1 THEN "0" ELSE "")

\* A Python int of value 10^e (an object-dtype label).
PyInt(e) == [t |-> "int", e |-> e, s |-> "1" \o Zeros(e)]

\* str() of the float t / 10.
Tenths(t) ==
    (IF t < 0 THEN "-" ELSE "") \o ToString(Abs(t) \div 10) \o "."
        \o ToString(Abs(t) % 10)

PyStrObj(text) == [t |-> "str", s |-> text]

PyNone == [t |-> "NoneType", s |-> "None"]

\* One row of a multi-output prediction.
NdArray(text) == [t |-> "ndarray", s |-> text]

Exc(type, msg) == [type |-> type, msg |-> msg]

\* 2^20 = 1048576.0, where float32 values are 1/8 apart.
BigN == Pow2(20) * U(1000)

\* The strings float() parses, among those the model draws.
FloatLiterals ==
    ("0.2" :> Fin(U(200))) @@ ("nan" :> NaN) @@ ("inf" :> PInf)
    @@ ("1048576" :> Fin(BigN))

\* float(x): a float, or the exception it raises.
PyFloat(x) ==
    CASE x.t = "float64" -> [ok |-> TRUE, val |-> x.v]
      [] x.t = "int" ->
            IF x.e > 308
            THEN [ok |-> FALSE,
                  exc |-> Exc("OverflowError", "int too large to convert to float")]
            ELSE [ok |-> TRUE, val |-> Fin(Pow10(x.e) * U(1000))]
      [] x.t = "str" ->
            IF x.s \in DOMAIN FloatLiterals
            THEN [ok |-> TRUE, val |-> FloatLiterals[x.s]]
            ELSE [ok |-> FALSE,
                  exc |-> Exc("ValueError",
                              "could not convert string to float: '" \o x.s \o "'")]
      [] x.t = "NoneType" ->
            [ok |-> FALSE,
             exc |-> Exc("TypeError",
                 "float() argument must be a string or a real number, not 'NoneType'")]
      [] x.t = "ndarray" ->
            [ok |-> FALSE,
             exc |-> Exc("TypeError",
                 "only length-1 arrays can be converted to Python scalars")]

\* str(x) and f"{x}".
PyStr(x) == x.s

\* ------------------------------------------------------- requests, files

\* The requests in flight together: two, and three in the race specification.
Workers == {1, 2}

RaceWorkers == {1, 2, 3}

Requests == Workers \cup RaceWorkers

NoFiles == [k \in {} |-> [filename |-> "", data |-> ""]]

NoForm == [k \in {} |-> ""]

FormFull == [dx_type |-> "histo", age |-> "45", sex |-> "male", localization |-> "back"]

\* A form whose text field is named image: not a file.
FormText == [image |-> "lesion.png", age |-> "45"]

Filenames == {"a.png", "b.png", ""}

FileData == {"pngX", "pngY", "junk"}

FileStorage(fn, data) == [filename |-> fn, data |-> data]

WithImage ==
    {[method |-> "POST", files |-> ("image" :> FileStorage(fn, d)), form |-> fm] :
        fn \in Filenames, d \in FileData, fm \in {FormFull, NoForm}}

WithoutImage ==
    {[method |-> "POST", files |-> fs, form |-> fm] :
        fs \in {NoFiles, ("photo" :> FileStorage("a.png", "pngX"))},
        fm \in {FormFull, FormText}}

AllRequests ==
    LET posts == WithImage \cup WithoutImage
    IN  posts \cup {[rq EXCEPT !.method = "OPTIONS"] : rq \in posts}

\* The workload of the race specification: uploads under one filename.
RaceRequests ==
    {[method |-> "POST", files |-> ("image" :> FileStorage("a.png", d)),
      form |-> FormFull] : d \in {"pngX", "pngY"}}

\* The workload of the fusion specification: one upload.
OneRequest ==
    {[method |-> "POST", files |-> ("image" :> FileStorage("a.png", "pngX")),
      form |-> FormFull]}

NoRequest == [method |-> "-", files |-> NoFiles, form |-> NoForm]

\* request.form.get(key, "")
FormGet(form, key) == IF key \in DOMAIN form THEN form[key] ELSE ""

\* os.path.join(a, b) for a relative b.
PathJoin(a, b) == a \o "/" \o b

\* open(path, "wb") fails on a directory: the join with an empty filename.
IsDirectory(path) == path = UPLOAD_FOLDER \o "/"

\* cv2.imread of the bytes: an image, or None for what is no image.
Decode(data) ==
    CASE data = "pngX" -> "imgX"
      [] data = "pngY" -> "imgY"
      [] OTHER -> "None"

Images == {"imgX", "imgY"}

\* (mask_pred > 0.5).astype(np.float32).squeeze()
Binarize(mask_pred) ==
    CASE mask_pred = "soft_lesion" -> "bin_lesion"
      [] mask_pred = "soft_all" -> "bin_all"

MaskedImages == [img : Images, mask : {"bin_lesion", "bin_all"}]

\* pd.DataFrame([{...}]): the one row.
InputRow(dx_type, age, sex, localization) ==
    [dx_type |-> dx_type, age |-> age, sex |-> sex, localization |-> localization]

Rows ==
    {InputRow(FormGet(fm, "dx_type"), FormGet(fm, "age"), FormGet(fm, "sex"),
              FormGet(fm, "localization")) : fm \in {FormFull, NoForm, FormText}}

\* ------------------------------------------------------------ the models

\* The end-to-end scenario's probabilities: top class nv, confidence 0.60.
ExampleProbs == <<U(100), U(600), U(50), U(50), U(50), U(100), U(50)>>

\* Seven entries summing to 1: hi at i, mid at j, the rest shared equally.
Peaked(i, j, hi, mid) ==
    [n \in 1..7 |-> IF n = i THEN hi
                    ELSE IF n = j THEN mid
                    ELSE (U(1000) - hi - mid) \div 5]

\* A classifier with eight outputs: more classes than labels.
Wide8(i) == [n \in 1..8 |-> IF n = i THEN U(300) ELSE U(100)]

\* A classifier with six outputs: fewer classes than labels.
Short6 == [n \in 1..6 |-> IF n = 1 THEN U(500) ELSE U(100)]

ProbVectors ==
    {ExampleProbs, Short6}
    \cup {Peaked(i, j, hm[1], hm[2]) :
            i \in 1..7, j \in 1..7,
            hm \in {<<U(600), U(100)>>, <<U(300), U(300)>>, <<U(310), U(300)>>}}
    \cup {Wide8(i) : i \in 1..8}

Predictions ==
    {NpFloat(Fin(k * U(200)), Tenths(2 * k)) : k \in (-MaxSteps)..MaxSteps}
    \cup {NpFloat(Fin(BigN), "1048576.0"), NpFloat(NaN, "nan"),
          NpFloat(PInf, "inf"), NpFloat(NInf, "-inf")}
    \cup {PyStrObj("mel"), PyStrObj("0.2"), PyStrObj("nan"), PyStrObj("")}
    \cup {PyNone, NdArray("[1 2]"), PyInt(0), PyInt(309)}

SegStub == [img \in Images |-> IF img = "imgX" THEN "soft_lesion" ELSE "soft_all"]

ClsStub ==
    [m \in MaskedImages |->
        IF m.img = "imgX" THEN ExampleProbs ELSE Peaked(4, 2, U(600), U(100))]

NlpStub ==
    [row \in Rows |->
        IF row.dx_type = "histo" THEN NpFloat(Fin(U(200)), "0.2") ELSE PyStrObj("mel")]

\* A metadata model whose labels are Python objects float() cannot take.
NlpStubObjects ==
    [row \in Rows |-> IF row.dx_type = "histo" THEN PyInt(309) ELSE PyNone]

NlpModels == {NlpStub, NlpStubObjects}

\* The fusion specification's models: every output for every input.
ClsModelsWide == {[m \in MaskedImages |-> p] : p \in ProbVectors}

NlpModelsWide == {[row \in Rows |-> y] : y \in Predictions}

\* ------------------------------------------------------------------ state

VARIABLES
    request,              \* request[r]: the request r handles
    pc,                   \* pc[r]: where predict() stands for r
    local,                \* local[r]: predict()'s local variables bound so far
    response,             \* response[r]: what r's client receives
    uploads,              \* the upload directory: path -> [data, by]
    segmentation_model,   \* the loaded models, read-only
    classification_model,
    nlp_model,
    invoked               \* history: <<r, model>> for every predict call made

vars == <<request, pc, local, response, uploads, segmentation_model,
          classification_model, nlp_model, invoked>>

models == <<segmentation_model, classification_model, nlp_model>>

NoLocals == [k \in {} |-> ""]

NoResponse == [status |-> 0, mimetype |-> "", body |-> NoForm, headers |-> <<>>]

\* ---------------------------------------------------------------- replies

\* headers[name] = value: the header replaced.
HeadersSet(h, name, value) ==
    SelectSeq(h, LAMBDA kv : kv[1] # name) \o <<<<name, value>>>>

\* headers.add(name, value): one more header.
HeadersAdd(h, name, value) == h \o <<<<name, value>>>>

HasHeader(resp, name) == \E i \in 1..Len(resp.headers) : resp.headers[i][1] = name

\* @app.after_request
add_cors_headers(resp) ==
    [resp EXCEPT !.headers =
        HeadersAdd(
            HeadersAdd(
                HeadersAdd(@, "Access-Control-Allow-Origin", allowed_origin),
                "Access-Control-Allow-Headers", "Content-Type,Authorization"),
            "Access-Control-Allow-Methods", "GET,POST,PUT,DELETE,OPTIONS")]

\* app.make_default_options_response(): no body, the route's methods allowed.
make_default_options_response ==
    [status |-> 200, mimetype |-> "text/html", body |-> NoForm,
     headers |-> <<<<"Allow", "OPTIONS, POST">>>>]

\* The reply of the OPTIONS branch.
OptionsReply ==
    [make_default_options_response EXCEPT !.headers =
        HeadersSet(
            HeadersSet(
                HeadersSet(@, "Access-Control-Allow-Origin", allowed_origin),
                "Access-Control-Allow-Headers", "Content-Type,Authorization"),
            "Access-Control-Allow-Methods", "GET,POST,PUT,DELETE,OPTIONS")]

\* jsonify(body), status
jsonify(body, status) ==
    [status |-> status, mimetype |-> "application/json", body |-> body,
     headers |-> <<<<"Content-Type", "application/json">>>>]

\* Mutation: the missing image reported as a server error.
MissingImageReplyAs500 == jsonify([error |-> "No image provided"], 500)

MissingImageReply == jsonify([error |-> "No image provided"], 400)

\* Mutation: the outer handler replying with the client-error status.
ErrorReplyAs400(e) == jsonify([error |-> e.msg], 400)

\* except Exception as e: return jsonify({"error": str(e)}), 500
ErrorReply(e) == jsonify([error |-> e.msg], 500)

\* "image" not in request.files
ImageMissing(rq) == "image" \notin DOMAIN rq.files

\* -------------------------------------------------------------- predict()

Bind(r, new) == [local EXCEPT ![r] = new @@ @]

\* predict() returns resp; Flask runs the after_request hook on it.
Return(r, resp) ==
    /\ response' = [response EXCEPT ![r] = add_cors_headers(resp)]
    /\ pc' = [pc EXCEPT ![r] = "done"]

\* An exception leaves the try block: the outer handler replies.  new are the
\* locals bound before the raise; e and the step it was raised in are kept.
Raise(r, new, e) ==
    /\ local' = Bind(r, [e |-> e, raised_in |-> pc[r]] @@ new)
    /\ Return(r, ErrorReply(e))

\* The step binds new and goes on to next.
Goto(r, new, next) ==
    /\ local' = Bind(r, new)
    /\ pc' = [pc EXCEPT ![r] = next]
    /\ UNCHANGED response

\* Mutation: no OPTIONS branch, the request falls into the main logic.
DispatchNoPreflight(r, rq) ==
    /\ pc[r] = "idle"
    /\ request' = [request EXCEPT ![r] = rq]
    /\ IF ImageMissing(rq)
       THEN Return(r, MissingImageReply)
       ELSE /\ pc' = [pc EXCEPT ![r] = "save"]
            /\ UNCHANGED response
    /\ UNCHANGED <<local, uploads, models, invoked>>

\* A request arrives and predict() runs to its first file operation: the
\* OPTIONS branch, step 1 (the image is required), or on to the save.
Dispatch(r, rq) ==
    /\ pc[r] = "idle"
    /\ request' = [request EXCEPT ![r] = rq]
    /\ IF rq.method = "OPTIONS"
       THEN Return(r, OptionsReply)
       ELSE IF ImageMissing(rq)
       THEN Return(r, MissingImageReply)
       ELSE /\ pc' = [pc EXCEPT ![r] = "save"]
            /\ UNCHANGED response
    /\ UNCHANGED <<local, uploads, models, invoked>>

\* Mutation: a path that depends on the content as well.
ImagePathByContent(image_file) ==
    PathJoin(UPLOAD_FOLDER, image_file.data \o "-" \o image_file.filename)

\* os.path.join(UPLOAD_FOLDER, image_file.filename)
ImagePath(image_file) == PathJoin(UPLOAD_FOLDER, image_file.filename)

\* Steps 2 and 3: the upload is saved under its own filename, the form read.
SaveUpload(r) ==
    /\ pc[r] = "save"
    /\ LET image_file == request[r].files["image"]
           image_path == ImagePath(image_file)
           saved == [image_file |-> image_file, image_path |-> image_path]
           form == request[r].form
       IN  IF IsDirectory(image_path)
           THEN /\ Raise(r, saved,
                         Exc("IsADirectoryError",
                             "[Errno 21] Is a directory: '" \o image_path \o "'"))
                /\ UNCHANGED uploads
           ELSE /\ uploads' = (image_path :> [data |-> image_file.data, by |-> r])
                                  @@ uploads
                /\ Goto(r, [dx_type |-> FormGet(form, "dx_type"),
                            age |-> FormGet(form, "age"),
                            sex |-> FormGet(form, "sex"),
                            localization |-> FormGet(form, "localization")]
                           @@ saved,
                        "load")
    /\ UNCHANGED <<request, models, invoked>>

\* Step 4: the file at image_path is read back and decoded.  read_by is
\* history: whose save the bytes came from.
LoadImage(r) ==
    /\ pc[r] = "load"
    /\ LET image_path == local[r].image_path
           file == uploads[image_path]
           orig_img == Decode(file.data)
           read == [read_data |-> file.data, read_by |-> file.by]
       IN  IF orig_img = "None"
           THEN Raise(r, read,
                      Exc("ValueError", "Could not read image from path: " \o image_path))
           ELSE Goto(r, [orig_img |-> orig_img, img_norm |-> orig_img] @@ read,
                     "segment")
    /\ UNCHANGED <<request, uploads, models, invoked>>

\* Steps 5 and 6: the mask, and the image masked by it.  The model call may
\* fail at run time.
Segment(r) ==
    /\ pc[r] = "segment"
    /\ invoked' = invoked \cup {<<r, "segmentation_model">>}
    /\ \E ok \in BOOLEAN :
         IF ~ok
         THEN Raise(r, NoLocals, Exc("RuntimeError", "segmentation_model.predict failed"))
         ELSE LET mask_pred == segmentation_model[local[r].img_norm]
                  mask_bin == Binarize(mask_pred)
              IN  Goto(r, [mask_bin |-> mask_bin,
                           masked_img |-> [img |-> local[r].img_norm, mask |-> mask_bin]],
                       "classify")
    /\ UNCHANGED <<request, uploads, models>>

\* CLASS_LABELS[top_idx] if top_idx < len(CLASS_LABELS) else "Unknown"
TopClassLabel(top_idx) ==
    IF top_idx < Len(CLASS_LABELS) THEN CLASS_LABELS[top_idx + 1] ELSE "Unknown"

\* ", ".join(f"{CLASS_LABELS[i]}: {cnn_probs[i]:.4f}" for i in range(7))
AllClassProbsStr(cnn_probs) ==
    JoinWith([i \in 1..Len(CLASS_LABELS) |->
                 CLASS_LABELS[i] \o ": " \o FormatFixed(cnn_probs[i], 4)], ", ")

\* Step 7: classification of the masked image.
Classify(r) ==
    /\ pc[r] = "classify"
    /\ invoked' = invoked \cup {<<r, "classification_model">>}
    /\ \E ok \in BOOLEAN :
         IF ~ok
         THEN Raise(r, NoLocals,
                    Exc("RuntimeError", "classification_model.predict failed"))
         ELSE LET cnn_probs == classification_model[local[r].masked_img]
                  top_idx == NpArgmax(AsFloats(cnn_probs))
                  top == [cnn_probs |-> cnn_probs,
                          top_idx |-> top_idx,
                          top_class_label |-> TopClassLabel(top_idx),
                          top_class_conf |-> cnn_probs[top_idx + 1]]
              IN  IF Len(cnn_probs) < Len(CLASS_LABELS)
                  THEN Raise(r, top,
                             Exc("IndexError",
                                 "index " \o ToString(Len(cnn_probs))
                                 \o " is out of bounds for axis 0 with size "
                                 \o ToString(Len(cnn_probs))))
                  ELSE Goto(r, [all_class_probs_str |-> AllClassProbsStr(cnn_probs)]
                               @@ top,
                            "nlp")
    /\ UNCHANGED <<request, uploads, models>>

\* Step 8: the metadata model's first prediction.
NlpPredict(r) ==
    /\ pc[r] = "nlp"
    /\ invoked' = invoked \cup {<<r, "nlp_model">>}
    /\ \E ok \in BOOLEAN :
         IF ~ok
         THEN Raise(r, NoLocals, Exc("RuntimeError", "nlp_model.predict failed"))
         ELSE LET input_df == InputRow(local[r].dx_type, local[r].age, local[r].sex,
                                       local[r].localization)
              IN  Goto(r, [input_df |-> input_df, nlp_pred |-> nlp_model[input_df]],
                       "combine")
    /\ UNCHANGED <<request, uploads, models>>

\* except (ValueError, TypeError)
CaughtByFusion(e) == e.type \in {"ValueError", "TypeError"}

\* Mutation: repr() in place of str().
FallbackLabelRepr(nlp_pred) == "'" \o PyStr(nlp_pred) \o "'"

\* final_label = str(nlp_pred)
FallbackLabel(nlp_pred) == PyStr(nlp_pred)

\* Mutation: the number added to the first entry only.
CombinedPredFirstOnly(cnn_probs, n) ==
    [i \in 1..Len(cnn_probs) |->
        F32Div2(IF i = 1 THEN F32Add(cnn_probs[i], n) ELSE Fin(cnn_probs[i]))]

\* (cnn_probs + nlp_pred_numeric) / 2.0
CombinedPred(cnn_probs, n) ==
    [i \in 1..Len(cnn_probs) |-> F32Div2(F32Add(cnn_probs[i], n))]

\* Step 9, the try block and its handler: the locals it binds, and the
\* exception that leaves it, if one does.
Fuse(cnn_probs, nlp_pred) ==
    LET f == PyFloat(nlp_pred)
    IN  IF f.ok
        THEN LET combined_pred == CombinedPred(cnn_probs, f.val)
                 final_idx == NpArgmax(combined_pred)
                 bound == [nlp_pred_numeric |-> f.val,
                           combined_pred |-> combined_pred,
                           final_idx |-> final_idx]
             IN  IF final_idx < Len(CLASS_LABELS)
                 THEN [ok |-> TRUE,
                       new |-> [final_label |-> CLASS_LABELS[final_idx + 1]] @@ bound]
                 ELSE [ok |-> FALSE, new |-> bound,
                       exc |-> Exc("IndexError", "list index out of range")]
        ELSE IF CaughtByFusion(f.exc)
        THEN [ok |-> TRUE, new |-> [final_label |-> FallbackLabel(nlp_pred)]]
        ELSE [ok |-> FALSE, new |-> NoLocals, exc |-> f.exc]

\* Step 9: the two predictions combined.
Combine(r) ==
    /\ pc[r] = "combine"
    /\ LET fused == Fuse(local[r].cnn_probs, local[r].nlp_pred)
       IN  IF fused.ok
           THEN Goto(r, fused.new, "render")
           ELSE Raise(r, fused.new, fused.exc)
    /\ UNCHANGED <<request, uploads, models, invoked>>

\* Steps 10 and 11: the four panels (masked, original, overlay, original
\* again), saved as PNG and base64-encoded.
PlotImageBase64(masked_img, orig_img, mask_bin) ==
    "b64(" \o masked_img.img \o "*" \o masked_img.mask \o "|" \o orig_img \o "|"
        \o orig_img \o "+" \o mask_bin \o "|" \o orig_img \o ")"

\* f"This disease is most probably classified as: {final_label}"
FinalOutput(final_label) ==
    "This disease is most probably classified as: " \o final_label

\* f"Predicted Class: {top_class_label} (Confidence: {top_class_conf:.2f})"
CnnOutput(top_class_label, top_class_conf) ==
    "Predicted Class: " \o top_class_label \o " (Confidence: "
        \o FormatFixed(top_class_conf, 2) \o ")"

\* Step 12: the success reply.
SuccessReply(l, plot_image_base64) ==
    jsonify([plot_image |-> "data:image/png;base64," \o plot_image_base64,
             cnn_output |-> CnnOutput(l.top_class_label, l.top_class_conf),
             all_class_probabilities |-> l.all_class_probs_str,
             nlp_output |-> "NLP Prediction: " \o PyStr(l.nlp_pred),
             segmentation_output |-> "U-Net Segmentation Applied",
             final_output |-> FinalOutput(l.final_label)],
            200)

\* Steps 10 to 12: the figure is drawn and encoded (which may fail at run
\* time) and the reply assembled.
Render(r) ==
    /\ pc[r] = "render"
    /\ \E ok \in BOOLEAN :
         IF ~ok
         THEN Raise(r, NoLocals, Exc("MemoryError", "savefig failed"))
         ELSE LET l == local[r]
                  plot_image_base64 ==
                      PlotImageBase64(l.masked_img, l.orig_img, l.mask_bin)
              IN  /\ local' = Bind(r, [plot_image_base64 |-> plot_image_base64])
                  /\ Return(r, SuccessReply(l, plot_image_base64))
    /\ UNCHANGED <<request, uploads, models, invoked>>

\* --------------------------------------------------------- specifications

Started ==
    /\ request = [r \in Requests |-> NoRequest]
    /\ pc = [r \in Requests |-> "idle"]
    /\ local = [r \in Requests |-> NoLocals]
    /\ response = [r \in Requests |-> NoResponse]
    /\ uploads = [p \in {} |-> [data |-> "", by |-> 0]]
    /\ invoked = {}

\* The process after start-up: the upload directory made, the models loaded.
Init ==
    /\ Started
    /\ segmentation_model = SegStub
    /\ classification_model = ClsStub
    /\ nlp_model \in NlpModels

Handle(r) ==
    \/ SaveUpload(r)
    \/ LoadImage(r)
    \/ Segment(r)
    \/ Classify(r)
    \/ NlpPredict(r)
    \/ Combine(r)
    \/ Render(r)

Next ==
    \E r \in Workers :
        \/ \E rq \in AllRequests : Dispatch(r, rq)
        \/ Handle(r)

Spec == Init /\ [][Next]_vars

\* Three image uploads in flight together.
NextRace ==
    \E r \in RaceWorkers :
        \/ \E rq \in RaceRequests : Dispatch(r, rq)
        \/ Handle(r)

InitRace ==
    /\ Started
    /\ segmentation_model = SegStub
    /\ classification_model = ClsStub
    /\ nlp_model = NlpStub

SpecRace == InitRace /\ [][NextRace]_vars

\* One upload, against every classifier output and metadata prediction.
InitFusion ==
    /\ Started
    /\ segmentation_model = SegStub
    /\ classification_model \in ClsModelsWide
    /\ nlp_model \in NlpModelsWide

NextFusion ==
    \E r \in {1} :
        \/ \E rq \in OneRequest : Dispatch(r, rq)
        \/ Handle(r)

SpecFusion == InitFusion /\ [][NextFusion]_vars

\* ----------------------------------------------------------------- claims

Done(r) == pc[r] = "done"

Has(r, name) == name \in DOMAIN local[r]

Failed(r) == Has(r, "e")

PostWithImage(r) == request[r].method = "POST" /\ ~ImageMissing(request[r])

Succeeded(r) == PostWithImage(r) /\ Done(r) /\ response[r].status = 200

PostWithoutImage(r) == request[r].method = "POST" /\ ImageMissing(request[r])

ResultKeys ==
    {"plot_image", "cnn_output", "all_class_probabilities", "nlp_output",
     "segmentation_output", "final_output"}

\* C1: a POST whose body has no file field named image, whatever its other
\* fields, is answered with status 400 and a JSON body holding the key error.
C1_MissingImageIs400 ==
    \A r \in Requests :
        PostWithoutImage(r) =>
            /\ Done(r)
            /\ response[r].status = 400
            /\ "error" \in DOMAIN response[r].body

\* A POST that has a text field named image, and a file under another name,
\* but no file named image, has been answered 400.
C1_Witness ==
    \E r, q \in Requests :
        /\ PostWithoutImage(r) /\ "image" \in DOMAIN request[r].form
        /\ PostWithoutImage(q) /\ "photo" \in DOMAIN request[q].files
        /\ response[r].status = 400 /\ response[q].status = 400

\* C2: a POST that carries an image is never answered 400, and once an
\* exception has left any later step the reply is status 500 with a JSON body
\* whose only key is error, holding the exception's string form: no result
\* key is in it.
C2_LaterFailureIs500 ==
    \A r \in Requests :
        PostWithImage(r) =>
            /\ response[r].status # 400
            /\ Failed(r) =>
                 /\ Done(r)
                 /\ response[r].status = 500
                 /\ DOMAIN response[r].body = {"error"}
                 /\ response[r].body.error = local[r].e.msg
                 /\ DOMAIN response[r].body \cap ResultKeys = {}

\* One request has failed in the fusion step, with the classification already
\* in its locals, and another at decoding; both are answered 500.
C2_Witness ==
    \E r, q \in Requests :
        /\ PostWithImage(r) /\ Failed(r) /\ local[r].raised_in = "combine"
        /\ Has(r, "cnn_probs") /\ Has(r, "nlp_pred")
        /\ PostWithImage(q) /\ Failed(q) /\ local[q].raised_in = "load"
        /\ response[r].status = 500 /\ response[q].status = 500

\* C3 as stated: on a successful request whose metadata prediction float()
\* rejects, final_output is the prediction's string form itself, and nothing
\* was averaged.
C3_Original ==
    \A r \in Requests :
        (Succeeded(r) /\ ~PyFloat(local[r].nlp_pred).ok) =>
            /\ response[r].body.final_output = PyStr(local[r].nlp_pred)
            /\ ~Has(r, "combined_pred")

\* C3 amended: on a successful request whose metadata prediction float()
\* rejects, final_output is the fixed sentence followed by the prediction's
\* string form, the fused label is that string form, and nothing was averaged.
C3_FallbackLaw ==
    \A r \in Requests :
        (Succeeded(r) /\ ~PyFloat(local[r].nlp_pred).ok) =>
            /\ local[r].final_label = local[r].nlp_pred.s
            /\ response[r].body.final_output =
                 "This disease is most probably classified as: " \o local[r].nlp_pred.s
            /\ ~Has(r, "combined_pred")
            /\ ~Has(r, "final_idx")

\* A request with the prediction "mel" has succeeded with final label mel.
C3_Witness ==
    \E r \in Requests :
        /\ Succeeded(r)
        /\ local[r].nlp_pred = PyStrObj("mel")
        /\ response[r].body.final_output =
             "This disease is most probably classified as: mel"

\* i (1-based) is where numpy.argmax points in c: the first NaN, or else the
\* first entry no other entry exceeds.
IsFirstMax(c, i) ==
    IF \E j \in 1..Len(c) : c[j].k = "nan"
    THEN c[i].k = "nan" /\ \A j \in 1..(i - 1) : c[j].k # "nan"
    ELSE /\ \A j \in 1..Len(c) : ~FGt(c[j], c[i])
         /\ \A j \in 1..(i - 1) : FGt(c[i], c[j])

\* Below 2^13 the sums are exact.
SmallNumber(n) == n.k = "fin" /\ Abs(n.v) < Pow2(13) * U(1000) - U(1000)

\* C4: on a successful request whose metadata prediction parses as a number N,
\* combined_pred is (cnn_probs + N) / 2 over every entry of cnn_probs, the
\* fused label is CLASS_LABELS at its first maximum, and final_output reports
\* that label; the probabilities [0.1,0.6,0.05,0.05,0.05,0.1,0.05] with
\* N = 0.2 give [0.15,0.4,0.125,0.125,0.125,0.15,0.125], top class nv with
\* confidence 0.60 and fused label nv.
C4_NumericLaw ==
    \A r \in Requests :
        (Succeeded(r) /\ PyFloat(local[r].nlp_pred).ok) =>
            LET p == local[r].cnn_probs
                n == PyFloat(local[r].nlp_pred).val
                c == local[r].combined_pred
                i == local[r].final_idx + 1
            IN  /\ Len(c) = Len(p)
                /\ \A j \in 1..Len(p) : c[j] = F32Div2(F32Add(p[j], n))
                /\ SmallNumber(n) => \A j \in 1..Len(p) : 2 * c[j].v = p[j] + n.v
                /\ IsFirstMax(c, i)
                /\ local[r].final_label = CLASS_LABELS[i]
                /\ response[r].body.final_output =
                     "This disease is most probably classified as: " \o CLASS_LABELS[i]
                /\ (p = ExampleProbs /\ n = Fin(U(200))) =>
                     /\ c = <<Fin(U(150)), Fin(U(400)), Fin(U(125)), Fin(U(125)),
                              Fin(U(125)), Fin(U(150)), Fin(U(125))>>
                     /\ local[r].top_class_label = "nv"
                     /\ response[r].body.cnn_output =
                          "Predicted Class: nv (Confidence: 0.60)"
                     /\ response[r].body.final_output =
                          "This disease is most probably classified as: nv"

\* The end-to-end scenario has succeeded.
C4_Witness ==
    \E r \in Requests :
        /\ Succeeded(r)
        /\ local[r].cnn_probs = ExampleProbs
        /\ local[r].nlp_pred = NpFloat(Fin(U(200)), "0.2")
        /\ local[r].final_label = "nv"

\* C5 as stated: whenever float() rejects the metadata prediction, the fusion
\* step ends with the prediction's string form as the fused label and no
\* exception leaves it.
C5_Original ==
    \A r \in Requests :
        (Has(r, "nlp_pred") /\ pc[r] # "combine" /\ ~PyFloat(local[r].nlp_pred).ok) =>
            /\ ~(Failed(r) /\ local[r].raised_in = "combine")
            /\ Has(r, "final_label")
            /\ local[r].final_label = PyStr(local[r].nlp_pred)

\* C6: an OPTIONS request, whatever its body, is answered at once with status
\* 200, no body and the three cross-origin headers; nothing of the main logic
\* runs for it: it binds no local, writes no upload and calls no model.
C6_Preflight ==
    \A r \in Requests :
        request[r].method = "OPTIONS" =>
            /\ Done(r)
            /\ response[r].status = 200
            /\ DOMAIN response[r].body = {}
            /\ HasHeader(response[r], "Access-Control-Allow-Origin")
            /\ HasHeader(response[r], "Access-Control-Allow-Headers")
            /\ HasHeader(response[r], "Access-Control-Allow-Methods")
            /\ local[r] = NoLocals
            /\ \A path \in DOMAIN uploads : uploads[path].by # r
            /\ \A m \in {"segmentation_model", "classification_model", "nlp_model"} :
                   <<r, m>> \notin invoked

\* An OPTIONS request whose body carries an image and a form was answered
\* while the upload directory is still empty.
C6_Witness ==
    \E r \in Requests :
        /\ request[r].method = "OPTIONS"
        /\ "image" \in DOMAIN request[r].files
        /\ request[r].form = FormFull
        /\ response[r].status = 200
        /\ DOMAIN uploads = {}

\* C7 as stated: two successful requests with the same image bytes, filename
\* and metadata report the same cnn_output and final_output, whatever else
\* is handled with them.
C7_Original ==
    \A r, q \in Requests :
        (Succeeded(r) /\ Succeeded(q) /\ request[r] = request[q]) =>
            /\ response[r].body.cnn_output = response[q].body.cnn_output
            /\ response[r].body.final_output = response[q].body.final_output

\* C8: two requests whose uploads have the same filename save to the same
\* path, and what a request decodes is whatever the last save to its path
\* left there: the bytes of the request read_by, which uploaded under the same
\* path and need not be the request itself.
C8_SharedUploadPath ==
    /\ \A r, q \in Requests :
         (Has(r, "image_path") /\ Has(q, "image_path")
          /\ request[r].files["image"].filename = request[q].files["image"].filename)
         => local[r].image_path = local[q].image_path
    /\ \A r \in Requests :
         Has(r, "read_by") =>
            LET w == local[r].read_by
            IN  /\ Has(w, "image_path")
                /\ local[w].image_path = local[r].image_path
                /\ local[r].read_data = request[w].files["image"].data
                /\ Has(r, "orig_img") => local[r].orig_img = Decode(local[r].read_data)

\* A request that uploaded pngX has succeeded on the bytes pngY that another
\* request saved under the same filename between its save and its read.
C8_Witness ==
    \E r, q \in Requests :
        /\ r # q
        /\ Succeeded(r)
        /\ PostWithImage(q)
        /\ request[r].files["image"].filename = request[q].files["image"].filename
        /\ request[r].files["image"].data = "pngX"
        /\ local[r].read_by = q
        /\ local[r].read_data = "pngY"
        /\ local[r].masked_img.img = "imgY"
        /\ local[r].cnn_probs = classification_model[local[r].masked_img]

\* C9 as stated: when the top index is no index of CLASS_LABELS, the top label
\* is Unknown, no exception leaves the classification or the fusion step, and
\* a success reply names Unknown in cnn_output.
C9_Original ==
    \A r \in Requests :
        (Has(r, "top_idx") /\ local[r].top_idx >= Len(CLASS_LABELS)) =>
            /\ local[r].top_class_label = "Unknown"
            /\ ~(Failed(r) /\ local[r].raised_in \in {"classify", "combine"})
            /\ Succeeded(r) =>
                 response[r].body.cnn_output =
                     "Predicted Class: Unknown (Confidence: "
                         \o FormatFixed(local[r].top_class_conf, 2) \o ")"

\* The request's fusion took the numeric path with a finite N on seven
\* probabilities.
NumericSeven(r) ==
    /\ Has(r, "final_idx")
    /\ Len(local[r].cnn_probs) = Len(CLASS_LABELS)
    /\ local[r].nlp_pred_numeric.k = "fin"

\* C10 as stated: on the numeric path with seven probabilities and a finite N
\* the fused index is the top index, so the fused label is the top label.
C10_Original ==
    \A r \in Requests :
        NumericSeven(r) =>
            /\ local[r].final_idx = local[r].top_idx
            /\ Has(r, "final_label") => local[r].final_label = local[r].top_class_label

\* Every float32 sum cnn_probs[j] + N is the exact sum.
SumsExact(p, n) == \A j \in 1..Len(p) : Fl32Round(p[j] + n.v) = p[j] + n.v

\* C10 amended: on the numeric path with seven probabilities and a finite N
\* the top class still holds the maximum of combined_pred, so the fused index
\* is the first index whose float32 sum equals the top's and never comes after
\* the top index; it is the top index, and the fused label the top label,
\* whenever the float32 additions are exact.
C10_FusedIsFirstTiedWithTop ==
    \A r \in Requests :
        NumericSeven(r) =>
            LET p == local[r].cnn_probs
                c == local[r].combined_pred
                f == local[r].final_idx
                t == local[r].top_idx
            IN  /\ f <= t
                /\ c[f + 1] = c[t + 1]
                /\ \A j \in 1..f : FGt(c[t + 1], c[j])
                /\ SumsExact(p, local[r].nlp_pred_numeric) =>
                     /\ f = t
                     /\ local[r].final_label = local[r].top_class_label

\* N = 2^20 on probabilities 0.30 and 0.31: the sums round to the same float32
\* and the fused label is the earlier class, not the top one.
C10_Witness ==
    \E r \in Requests :
        /\ Succeeded(r)
        /\ NumericSeven(r)
        /\ local[r].nlp_pred_numeric = Fin(BigN)
        /\ local[r].cnn_probs = Peaked(2, 1, U(310), U(300))
        /\ local[r].top_class_label = "nv"
        /\ local[r].final_label = "bkl"

====
